---- MODULE Spec2Model ----
(***************************************************************************)
(* WebViewManager (crates/agent_ui/src/webview_manager.rs): a floating     *)
(* NSWindow hosting a WKWebView, and its stand-in on other platforms.      *)
(*                                                                         *)
(* The manager's own state is the struct (floating_window, ns_webview,     *)
(* current_url).  The native side it drives through msg_send! is modelled  *)
(* by what the manager can observe or cause: the objects' retain counts,   *)
(* the window's visibility flag, the subview relation, the load requests   *)
(* issued on the content view and the log of messages sent.                *)
(***************************************************************************)
EXTENDS Integers, Sequences, FiniteSets, TLC

VARIABLES
    variant,          \* which cfg(target_os) build is running
    classes,          \* the Objective-C classes the runtime resolves
    pc,               \* position of the owning thread
    args,             \* arguments of the new() call in progress
    result,           \* what new() returned: "none", "Ok" or "Err"
    current_url,      \* WebViewManager.current_url
    floating_window,  \* WebViewManager.floating_window
    ns_webview,       \* WebViewManager.ns_webview
    objs,             \* native objects: state and retain count
    winVisible,       \* the NSWindow's isVisible flag
    releasedWhenClosed, \* the NSWindow's releasedWhenClosed property
    winFrame,         \* the rectangle the window was initialised with
    subviews,         \* views attached to the window's content view
    loads,            \* load requests issued on the content view, in order
    loadStatus,       \* fate of the most recent load at the native layer
    msgs,             \* messages sent to native objects, in order
    lookups,          \* Class::get calls made, per class name
    winReleases,      \* release messages delivered to the window
    hist              \* calls and user events on the manager, with effects

vars == << variant, classes, pc, args, result, current_url, floating_window,
           ns_webview, objs, winVisible, releasedWhenClosed, winFrame,
           subviews, loads, loadStatus, msgs, lookups, winReleases, hist >>

----------------------------------------------------------------------------
(* Bounds and input sets *)

MaxOps == 4

Nil == "nil"

Addrs == { "https://example.com", "https://example.com/page2", "not a url" }

Malformed == { "not a url" }

Sizes == { [width |-> 480, height |-> 640], [width |-> 0, height |-> 0] }

ScreenFrame == [x |-> 0, y |-> 0, width |-> 1440, height |-> 900]

Margin == 100

RequiredClasses == { "WKWebViewConfiguration", "WKWebView", "WKWebsiteDataStore" }

ObjIds == { "window", "webview", "config" }

NoObj == [state |-> "none", rc |-> 0]

----------------------------------------------------------------------------
(* Native primitives *)

\* Class::get(name): Some(class) when the runtime has the class.
ClassGetNever(name) == TRUE

ClassGet(name) == name \in classes

\* [NSURL URLWithString:]: nil for a string that is no URL.
URLWithString(s) == IF s \in Malformed THEN Nil ELSE s

\* alloc/init (or new) of an object: one owning reference.
Alloc(os, o) == [os EXCEPT ![o] = [state |-> "live", rc |-> 1]]

\* A superview retains the view added to it.
Retain(os, o) == [os EXCEPT ![o].rc = @ + 1]

\* release: the count drops; at zero the object is deallocated, and a
\* deallocated window lets go of the views under its content view.
ReleaseOne(os, o) ==
    IF os[o].state # "live" THEN os
    ELSE IF os[o].rc > 1 THEN [os EXCEPT ![o].rc = @ - 1]
    ELSE [os EXCEPT ![o] = [state |-> "freed", rc |-> 0]]

Release(os, o, subs) ==
    LET os1 == ReleaseOne(os, o) IN
    IF o = "window" /\ os[o].state = "live" /\ os1[o].state = "freed"
       /\ "webview" \in subs
    THEN ReleaseOne(os1, "webview")
    ELSE os1

\* One more Class::get call for `name`.
Lookup(l, name) == [l EXCEPT ![name] = @ + 1]

\* Messages sent to one target, in order.
RECURSIVE SendAll(_, _)
SendAll(target, sels) ==
    IF sels = << >> THEN << >>
    ELSE << <<target, Head(sels)>> >> \o SendAll(target, Tail(sels))

\* What the native window does with a message; st = [objs, vis, rel].
WinDeliver(st, sel) ==
    IF sel = "makeKeyAndOrderFront" THEN [st EXCEPT !.vis = TRUE]
    ELSE IF sel = "orderOut" THEN [st EXCEPT !.vis = FALSE]
    ELSE IF sel = "close" THEN
        IF releasedWhenClosed
        THEN [objs |-> Release(st.objs, "window", subviews), vis |-> FALSE,
              rel |-> st.rel + 1]
        ELSE [st EXCEPT !.vis = FALSE]
    ELSE IF sel = "release" THEN
        LET os == Release(st.objs, "window", subviews) IN
        [objs |-> os,
         vis |-> IF os["window"].state = "live" THEN st.vis ELSE FALSE,
         rel |-> st.rel + 1]
    ELSE st

RECURSIVE WinDeliverAll(_, _)
WinDeliverAll(st, sels) ==
    IF sels = << >> THEN st
    ELSE WinDeliverAll(WinDeliver(st, Head(sels)), Tail(sels))

WinState == [objs |-> objs, vis |-> winVisible, rel |-> winReleases]

Snapshot == [url |-> current_url, vis |-> winVisible, objs |-> objs,
             nloads |-> Len(loads)]

Event(op, url, flag, ret, pre, post) ==
    [op |-> op, url |-> url, flag |-> flag, ret |-> ret,
     pre |-> pre, post |-> post]

----------------------------------------------------------------------------
Init ==
    /\ variant \in {"native", "standin"}
    /\ classes \in SUBSET RequiredClasses
    /\ (variant = "standin" => classes = {})
    /\ pc = "init"
    /\ args = [url |-> Nil, bounds |-> [width |-> 0, height |-> 0]]
    /\ result = "none"
    /\ current_url = Nil
    /\ floating_window = Nil
    /\ ns_webview = Nil
    /\ objs = [o \in ObjIds |-> NoObj]
    /\ winVisible = FALSE
    /\ releasedWhenClosed = TRUE
    /\ winFrame = [x |-> 0, y |-> 0, width |-> 0, height |-> 0]
    /\ subviews = {}
    /\ loads = << >>
    /\ loadStatus = "none"
    /\ msgs = << >>
    /\ lookups = [c \in RequiredClasses |-> 0]
    /\ winReleases = 0
    /\ hist = << >>

----------------------------------------------------------------------------
(* Construction, native variant: new(), lines 26-108, in source order *)

Fail ==
    /\ pc' = "failed"
    /\ result' = "Err"

\* Lines 32-35: the two classes looked up before anything is created.
new_classes(b, url) ==
    /\ variant = "native"
    /\ pc = "init"
    /\ args' = [url |-> url, bounds |-> b]
    /\ IF ~ClassGet("WKWebViewConfiguration")
       THEN /\ lookups' = Lookup(lookups, "WKWebViewConfiguration")
            /\ Fail
       ELSE /\ lookups' = Lookup(Lookup(lookups, "WKWebViewConfiguration"),
                                 "WKWebView")
            /\ IF ~ClassGet("WKWebView")
               THEN Fail
               ELSE pc' = "new_window" /\ UNCHANGED result
    /\ UNCHANGED << variant, classes, current_url, floating_window,
                    ns_webview, objs, winVisible, releasedWhenClosed,
                    winFrame, subviews, loads, loadStatus, msgs,
                    winReleases, hist >>

\* Line 70: setReleasedWhenClosed:NO.
ReleasedWhenClosedYes == TRUE

ReleasedWhenClosedArg == FALSE

\* Lines 37-70: the window is allocated, initialised and configured.
new_window ==
    /\ pc = "new_window"
    /\ objs' = Alloc(objs, "window")
    /\ winFrame' = [x |-> ScreenFrame.x + Margin,
                    y |-> ScreenFrame.y + ScreenFrame.height
                          - args.bounds.height - Margin,
                    width |-> args.bounds.width,
                    height |-> args.bounds.height]
    /\ releasedWhenClosed' = ReleasedWhenClosedArg
    /\ msgs' = msgs \o << <<"NSScreen", "mainScreen">>, <<"screen", "frame">> >>
                    \o SendAll("window",
                         << "alloc", "initWithContentRect",
                            "setTitlebarAppearsTransparent",
                            "setTitleVisibility", "setLevel", "setOpaque",
                            "setHasShadow", "setReleasedWhenClosed" >>)
    /\ pc' = "new_config"
    /\ UNCHANGED << variant, classes, args, result, current_url,
                    floating_window, ns_webview, winVisible, subviews,
                    loads, loadStatus, lookups, winReleases, hist >>

\* Lines 72-77: the configuration is created, then the data store class is
\* looked up; `?` returns the error from here.
new_config ==
    /\ pc = "new_config"
    /\ objs' = Alloc(objs, "config")
    /\ lookups' = Lookup(lookups, "WKWebsiteDataStore")
    /\ IF ~ClassGet("WKWebsiteDataStore")
       THEN /\ Fail
            /\ msgs' = Append(msgs, <<"WKWebViewConfiguration", "new">>)
       ELSE /\ pc' = "new_webview"
            /\ UNCHANGED result
            /\ msgs' = msgs \o << <<"WKWebViewConfiguration", "new">>,
                                   <<"WKWebsiteDataStore", "defaultDataStore">>,
                                   <<"config", "setWebsiteDataStore">> >>
    /\ UNCHANGED << variant, classes, args, current_url, floating_window,
                    ns_webview, winVisible, releasedWhenClosed, winFrame,
                    subviews, loads, loadStatus, winReleases, hist >>

\* Lines 79-91, with the window presented before the load is issued.
new_webview_presents ==
    /\ pc = "new_webview"
    /\ objs' = Retain(Alloc(objs, "webview"), "webview")
    /\ subviews' = subviews \cup {"webview"}
    /\ winVisible' = TRUE
    /\ msgs' = msgs \o SendAll("webview",
                         << "alloc", "initWithFrame", "setAutoresizingMask" >>)
                    \o << <<"window", "contentView">>,
                          <<"contentView", "addSubview">>,
                          <<"window", "makeKeyAndOrderFront">> >>
    /\ pc' = "new_load"
    /\ UNCHANGED << variant, classes, args, result, current_url,
                    floating_window, ns_webview, releasedWhenClosed,
                    winFrame, loads, loadStatus, lookups, winReleases,
                    hist >>

\* Lines 79-91: the content view is created and attached to the window.
new_webview ==
    /\ pc = "new_webview"
    /\ objs' = Retain(Alloc(objs, "webview"), "webview")
    /\ subviews' = subviews \cup {"webview"}
    /\ msgs' = msgs \o SendAll("webview",
                         << "alloc", "initWithFrame", "setAutoresizingMask" >>)
                    \o << <<"window", "contentView">>,
                          <<"contentView", "addSubview">> >>
    /\ pc' = "new_load"
    /\ UNCHANGED << variant, classes, args, result, current_url,
                    floating_window, ns_webview, winVisible,
                    releasedWhenClosed, winFrame, loads, loadStatus,
                    lookups, winReleases, hist >>

\* Lines 93-96 and 119-122: a request for `url` is built and loaded.
LoadRequest(url) == [addr |-> url, nsurl |-> URLWithString(url)]

\* Lines 93-96: the initial address is loaded.
new_load ==
    /\ pc = "new_load"
    /\ loads' = Append(loads, LoadRequest(args.url))
    /\ loadStatus' = "inflight"
    /\ msgs' = Append(msgs, <<"webview", "loadRequest">>)
    /\ pc' = "new_present"
    /\ UNCHANGED << variant, classes, args, result, current_url,
                    floating_window, ns_webview, objs, winVisible,
                    releasedWhenClosed, winFrame, subviews, lookups,
                    winReleases, hist >>

\* Line 98: the message that presents the window.
PresentSelOrderOut == "orderOut"

PresentSel == "makeKeyAndOrderFront"

\* Lines 98-106: the window is presented and the manager returned.
new_present ==
    /\ pc = "new_present"
    /\ msgs' = Append(msgs, <<"window", PresentSel>>)
    /\ LET st == WinDeliver(WinState, PresentSel) IN
         /\ winVisible' = st.vis
         /\ objs' = st.objs
         /\ winReleases' = st.rel
    /\ floating_window' = "window"
    /\ ns_webview' = "webview"
    /\ current_url' = args.url
    /\ result' = "Ok"
    /\ pc' = "live"
    /\ UNCHANGED loads
    /\ hist' = << Event("new", args.url, FALSE, FALSE, Snapshot, Snapshot') >>
    /\ UNCHANGED << variant, classes, args, releasedWhenClosed, winFrame,
                    subviews, loadStatus, lookups >>

\* Lines 163-167: the stand-in's new() stores the address and succeeds.
standin_new(b, url) ==
    /\ variant = "standin"
    /\ pc = "init"
    /\ args' = [url |-> url, bounds |-> b]
    /\ current_url' = url
    /\ result' = "Ok"
    /\ pc' = "live"
    /\ UNCHANGED << objs, winVisible, loads >>
    /\ hist' = << Event("new", url, FALSE, FALSE, Snapshot, Snapshot') >>
    /\ UNCHANGED << variant, classes, floating_window, ns_webview,
                    releasedWhenClosed, winFrame, subviews, loadStatus,
                    msgs, lookups, winReleases >>

----------------------------------------------------------------------------
(* Operations on a constructed manager *)

CanCall == pc = "live" /\ Len(hist) <= MaxOps

\* Line 112: the short-circuit test of navigate.
SameAddressNever(cur, url) == FALSE

SameAddress(cur, url) == cur = url

\* Line 116: what navigate stores as current_url.
NavigateKeepsOld(cur, url) == cur

NavigateStore(cur, url) == url

\* Lines 110-125: navigate, native variant.
navigate(url) ==
    /\ variant = "native"
    /\ CanCall
    /\ IF SameAddress(current_url, url)
       THEN UNCHANGED << current_url, loads, loadStatus, msgs >>
       ELSE /\ current_url' = NavigateStore(current_url, url)
            /\ loads' = Append(loads, LoadRequest(url))
            /\ loadStatus' = "inflight"
            /\ msgs' = Append(msgs, <<ns_webview, "loadRequest">>)
    /\ UNCHANGED << objs, winVisible >>
    /\ hist' = Append(hist, Event("navigate", url, FALSE, FALSE,
                                  Snapshot, Snapshot'))
    /\ UNCHANGED << variant, classes, pc, args, result, floating_window,
                    ns_webview, releasedWhenClosed, winFrame, subviews,
                    lookups, winReleases >>

\* Lines 130-134: the message set_hidden sends for `hidden`.
HiddenSelectorSwapped(hidden) ==
    IF hidden THEN "makeKeyAndOrderFront" ELSE "orderOut"

HiddenSelectorDestroys(hidden) ==
    IF hidden THEN "release" ELSE "makeKeyAndOrderFront"

HiddenSelector(hidden) ==
    IF hidden THEN "orderOut" ELSE "makeKeyAndOrderFront"

\* Lines 127-136: set_hidden, native variant.
set_hidden(hidden) ==
    /\ variant = "native"
    /\ CanCall
    /\ msgs' = Append(msgs, <<floating_window, HiddenSelector(hidden)>>)
    /\ LET st == WinDeliver(WinState, HiddenSelector(hidden)) IN
         /\ winVisible' = st.vis
         /\ objs' = st.objs
         /\ winReleases' = st.rel
    /\ UNCHANGED << current_url, loads >>
    /\ hist' = Append(hist, Event("set_hidden", Nil, hidden, FALSE,
                                  Snapshot, Snapshot'))
    /\ UNCHANGED << variant, classes, pc, args, result, floating_window,
                    ns_webview, releasedWhenClosed, winFrame, subviews,
                    loadStatus, lookups >>

\* Lines 141-142: what is_visible returns, given the window's answer.
RECURSIVE LastPresented(_)
LastPresented(h) ==
    IF h = << >> THEN TRUE
    ELSE IF h[Len(h)].op = "set_hidden" THEN ~h[Len(h)].flag
    ELSE LastPresented(SubSeq(h, 1, Len(h) - 1))

IsVisibleCached(flag) == LastPresented(hist)

IsVisibleResult(flag) == flag

\* Lines 138-144: is_visible, native variant.
is_visible ==
    /\ variant = "native"
    /\ CanCall
    /\ msgs' = Append(msgs, <<floating_window, "isVisible">>)
    /\ UNCHANGED << current_url, loads, objs, winVisible >>
    /\ hist' = Append(hist, Event("is_visible", Nil, FALSE,
                                  IsVisibleResult(winVisible),
                                  Snapshot, Snapshot'))
    /\ UNCHANGED << variant, classes, pc, args, result, floating_window,
                    ns_webview, releasedWhenClosed, winFrame, subviews,
                    loadStatus, lookups, winReleases >>

\* Lines 153-156: the messages drop sends after isVisible.
DropReleaseFirst(visible) ==
    IF visible THEN << "release", "close" >> ELSE << "release" >>

DropMessages(visible) ==
    IF visible THEN << "close", "release" >> ELSE << "release" >>

\* Lines 147-159: Drop::drop; its body is compiled on the native variant only.
drop ==
    /\ pc = "live"
    /\ pc' = "dropped"
    /\ IF variant = "native"
       THEN /\ msgs' = msgs \o SendAll(floating_window,
                                  << "isVisible" >> \o DropMessages(winVisible))
            /\ LET st == WinDeliverAll(WinState, DropMessages(winVisible)) IN
                 /\ winVisible' = st.vis
                 /\ objs' = st.objs
                 /\ winReleases' = st.rel
       ELSE UNCHANGED << msgs, winVisible, objs, winReleases >>
    /\ UNCHANGED << current_url, loads >>
    /\ hist' = Append(hist, Event("drop", Nil, FALSE, FALSE,
                                  Snapshot, Snapshot'))
    /\ UNCHANGED << variant, classes, args, result, floating_window,
                    ns_webview, releasedWhenClosed, winFrame, subviews,
                    loadStatus, lookups >>

\* Lines 169-171: navigate, stand-in variant.
standin_navigate(url) ==
    /\ variant = "standin"
    /\ CanCall
    /\ current_url' = url
    /\ UNCHANGED << loads, objs, winVisible >>
    /\ hist' = Append(hist, Event("navigate", url, FALSE, FALSE,
                                  Snapshot, Snapshot'))
    /\ UNCHANGED << variant, classes, pc, args, result, floating_window,
                    ns_webview, releasedWhenClosed, winFrame, subviews,
                    loadStatus, msgs, lookups, winReleases >>

\* Line 173: set_hidden, stand-in variant.
standin_set_hidden(hidden) ==
    /\ variant = "standin"
    /\ CanCall
    /\ UNCHANGED << variant, classes, pc, args, result, current_url,
                    floating_window, ns_webview, objs, winVisible,
                    releasedWhenClosed, winFrame, subviews, loads,
                    loadStatus, msgs, lookups, winReleases >>
    /\ hist' = Append(hist, Event("set_hidden", Nil, hidden, FALSE,
                                  Snapshot, Snapshot'))

\* Line 176: what the stand-in's is_visible returns.
StandinVisibleTrue == TRUE

StandinVisible == FALSE

\* Lines 175-177: is_visible, stand-in variant.
standin_is_visible ==
    /\ variant = "standin"
    /\ CanCall
    /\ UNCHANGED << variant, classes, pc, args, result, current_url,
                    floating_window, ns_webview, objs, winVisible,
                    releasedWhenClosed, winFrame, subviews, loads,
                    loadStatus, msgs, lookups, winReleases >>
    /\ hist' = Append(hist, Event("is_visible", Nil, FALSE, StandinVisible,
                                  Snapshot, Snapshot'))

----------------------------------------------------------------------------
(* The native environment *)

\* The user closes the presented window through the system; the manager
\* intercepts nothing, and the window honours releasedWhenClosed (line 70).
UserClose ==
    /\ variant = "native"
    /\ CanCall
    /\ winVisible
    /\ LET st == WinDeliver(WinState, "close") IN
         /\ winVisible' = st.vis
         /\ objs' = st.objs
         /\ winReleases' = st.rel
    /\ UNCHANGED << current_url, loads >>
    /\ hist' = Append(hist, Event("user_close", Nil, FALSE, FALSE,
                                  Snapshot, Snapshot'))
    /\ UNCHANGED << variant, classes, pc, args, result, floating_window,
                    ns_webview, releasedWhenClosed, winFrame, subviews,
                    loadStatus, msgs, lookups >>

\* The load issued last (lines 96, 122) ends at the native layer; nothing
\* reports it to the manager.  A request without a URL can only fail.
LoadEnds(ok) ==
    /\ pc \in {"live", "dropped"}
    /\ loadStatus = "inflight"
    /\ objs["webview"].state = "live"
    /\ ok => loads[Len(loads)].nsurl # Nil
    /\ loadStatus' = IF ok THEN "finished" ELSE "failed"
    /\ UNCHANGED << variant, classes, pc, args, result, current_url,
                    floating_window, ns_webview, objs, winVisible,
                    releasedWhenClosed, winFrame, subviews, loads, msgs,
                    lookups, winReleases, hist >>

----------------------------------------------------------------------------
Next ==
    \/ \E b \in Sizes, url \in Addrs : new_classes(b, url)
    \/ new_window
    \/ new_config
    \/ new_webview
    \/ new_load
    \/ new_present
    \/ \E b \in Sizes, url \in Addrs : standin_new(b, url)
    \/ \E url \in Addrs : navigate(url)
    \/ \E hidden \in BOOLEAN : set_hidden(hidden)
    \/ is_visible
    \/ drop
    \/ \E url \in Addrs : standin_navigate(url)
    \/ \E hidden \in BOOLEAN : standin_set_hidden(hidden)
    \/ standin_is_visible
    \/ UserClose
    \/ \E ok \in BOOLEAN : LoadEnds(ok)

Spec == Init /\ [][Next]_vars

----------------------------------------------------------------------------
(* The cleanup path run a second time on the same instance *)

MaxDrops == 2

DropCount == Cardinality({ i \in 1..Len(hist) : hist[i].op = "drop" })

\* Lines 147-159 run again after the window was released: every msg_send!
\* goes through a dangling floating_window.  The run may die at the first
\* message, or the stale object may answer isVisible either way and the
\* remaining messages follow.
DropAgain ==
    /\ pc = "dropped"
    /\ DropCount < MaxDrops
    /\ \E crash \in BOOLEAN, answer \in BOOLEAN :
         IF variant = "native"
         THEN LET visible == IF objs["window"].state = "live"
                             THEN winVisible ELSE answer
                  st == WinDeliverAll(WinState, DropMessages(visible))
              IN  IF crash /\ objs["window"].state # "live"
                  THEN /\ pc' = "crashed"
                       /\ msgs' = Append(msgs, <<floating_window, "isVisible">>)
                       /\ UNCHANGED << winVisible, objs, winReleases >>
                  ELSE /\ pc' = pc
                       /\ msgs' = msgs \o SendAll(floating_window,
                                    << "isVisible" >> \o DropMessages(visible))
                       /\ winVisible' = st.vis
                       /\ objs' = st.objs
                       /\ winReleases' = st.rel
         ELSE UNCHANGED << pc, msgs, winVisible, objs, winReleases >>
    /\ UNCHANGED << current_url, loads >>
    /\ hist' = Append(hist, Event("drop", Nil, FALSE, FALSE,
                                  Snapshot, Snapshot'))
    /\ UNCHANGED << variant, classes, args, result, floating_window,
                    ns_webview, releasedWhenClosed, winFrame, subviews,
                    loadStatus, lookups >>

NextDoubleDrop == Next \/ DropAgain

SpecDoubleDrop == Init /\ [][NextDoubleDrop]_vars

----------------------------------------------------------------------------
(* Properties *)

Native == variant = "native"

Calls == 1..Len(hist)

IsCall(i, op) == i \in Calls /\ hist[i].op = op

\* Selectors of the messages sent to the window, in order.
WindowMsgs == SelectSeq(msgs, LAMBDA m : m[1] = "window")

Sent(sel) == Cardinality({ i \in 1..Len(WindowMsgs) : WindowMsgs[i][2] = sel })

\* The address of the most recent new() or navigate() call in h.
RECURSIVE LastRequested(_)
LastRequested(h) ==
    IF h = << >> THEN Nil
    ELSE IF h[Len(h)].op \in {"new", "navigate"} THEN h[Len(h)].url
    ELSE LastRequested(SubSeq(h, 1, Len(h) - 1))

\* C1: on the native variant, navigate to the stored address changes neither
\* the stored address, the window's visibility, the native objects nor the
\* number of load requests issued.
C1_NavigateSameAddressIsNoOp ==
    \A i \in Calls :
        (Native /\ hist[i].op = "navigate" /\ hist[i].url = hist[i].pre.url)
            => hist[i].post = hist[i].pre

C1_Witness ==
    /\ Native
    /\ \E i \in Calls : /\ hist[i].op = "navigate"
                        /\ hist[i].url = hist[i].pre.url
                        /\ hist[i].pre.nloads >= 2

\* C2 as stated: on the native variant, whatever the stored address, two
\* navigate calls in a row with different addresses issue exactly two load
\* requests and leave the second address stored.
C2_TwoNavigatesTwoLoadsAnyStored ==
    \A i \in Calls :
        (Native /\ IsCall(i, "navigate") /\ IsCall(i + 1, "navigate")
                /\ hist[i].url # hist[i + 1].url)
            => /\ hist[i + 1].post.nloads = hist[i].pre.nloads + 2
               /\ hist[i + 1].post.url = hist[i + 1].url

\* C2 as amended: two navigate calls in a row with different addresses leave
\* the second address stored and issue exactly two load requests when the
\* first address differs from the stored one, exactly one when it equals it.
C2_TwoNavigatesLoads ==
    \A i \in Calls :
        (Native /\ IsCall(i, "navigate") /\ IsCall(i + 1, "navigate")
                /\ hist[i].url # hist[i + 1].url)
            => /\ hist[i + 1].post.url = hist[i + 1].url
               /\ hist[i + 1].post.nloads =
                    hist[i].pre.nloads
                    + (IF hist[i].url # hist[i].pre.url THEN 2 ELSE 1)

C2_Witness ==
    /\ Native
    /\ \E i \in Calls : /\ IsCall(i, "navigate") /\ IsCall(i + 1, "navigate")
                        /\ hist[i].url # hist[i + 1].url
                        /\ hist[i].url # hist[i].pre.url
                        /\ hist[i + 1].post.nloads = hist[i].pre.nloads + 2

\* C3: while the manager is live, on either variant, current_url is the
\* address given to the most recent new() or navigate() call, whatever
\* set_hidden, is_visible and user close events came between and whatever
\* became of the native load.
C3_CurrentUrlIsLastRequested ==
    pc = "live" => current_url = LastRequested(hist)

C3_Witness ==
    /\ Native
    /\ pc = "live"
    /\ loadStatus = "failed"
    /\ \E i \in Calls, j \in Calls :
         /\ i < j
         /\ hist[i].op = "navigate" /\ hist[i].url # hist[i].pre.url
         /\ hist[j].op = "user_close"

\* C4: on the native variant, is_visible right after set_hidden(true) returns
\* false and right after set_hidden(false) returns true, from any prior state.
C4_SetHiddenThenIsVisible ==
    \A i \in Calls :
        (Native /\ IsCall(i, "set_hidden") /\ IsCall(i + 1, "is_visible"))
            => hist[i + 1].ret = ~hist[i].flag

C4_Witness ==
    /\ Native
    /\ \E i \in Calls : /\ IsCall(i, "user_close")
                        /\ IsCall(i + 1, "set_hidden") /\ ~hist[i + 1].flag
                        /\ IsCall(i + 2, "is_visible") /\ hist[i + 2].ret

\* C5: the cleanup path run twice sends nothing to a window already released,
\* so the window receives release at most once.
C5_SecondDropSendsNothing ==
    /\ winReleases <= 1
    /\ \A i \in 1..Len(WindowMsgs) :
         WindowMsgs[i][2] = "release" => i = Len(WindowMsgs)

\* C6: after disposal of a constructed native manager both the window and
\* the content view are released.
C6_DropReleasesWindowAndView ==
    (Native /\ pc = "dropped")
        => /\ objs["window"].state = "freed"
           /\ objs["webview"].state = "freed"

\* C7: disposal sends close to the window exactly when the window is
\* presented at that moment, and release exactly once, as the last message
\* the manager sends to the window; before disposal neither is sent.
C7_DropOrder ==
    Native =>
        IF pc = "dropped"
        THEN /\ hist[Len(hist)].op = "drop"
             /\ Sent("release") = 1
             /\ WindowMsgs[Len(WindowMsgs)][2] = "release"
             /\ Sent("close") = (IF hist[Len(hist)].pre.vis THEN 1 ELSE 0)
             /\ winReleases = 1
        ELSE Sent("release") = 0 /\ Sent("close") = 0

C7_Witness ==
    /\ Native
    /\ pc = "dropped"
    /\ hist[Len(hist)].pre.vis
    /\ Sent("close") = 1
    /\ \E i \in Calls : hist[i].op = "user_close"

\* C8: native new() returns an error, and no manager, exactly when one of the
\* three required classes cannot be resolved; then no load request was issued
\* and no window presented, and no class is looked up twice.
C8_ErrIffClassMissing ==
    Native =>
        /\ \A c \in RequiredClasses : lookups[c] <= 1
        /\ (result # "none") =>
               (result = "Err" <=> classes # RequiredClasses)
        /\ (result = "Err") =>
               /\ pc = "failed"
               /\ floating_window = Nil /\ ns_webview = Nil
               /\ current_url = Nil
               /\ loads = << >>
               /\ ~winVisible
               /\ Sent("makeKeyAndOrderFront") = 0

C8_Witness ==
    /\ Native
    /\ result = "Err"
    /\ classes = {"WKWebViewConfiguration", "WKWebView"}
    /\ objs["window"].state = "live"

\* C9: when new() fails, no native object it allocated remains unreleased.
C9_FailedNewReleasesEverything ==
    pc = "failed" => \A o \in ObjIds : objs[o].state # "live"

\* C10: is_visible right after a successful new() returns true on the native
\* variant and false on the stand-in, for every size and address.
C10_VisibleAfterNew ==
    (IsCall(1, "new") /\ IsCall(2, "is_visible"))
        => hist[2].ret = Native

C10_Witness ==
    /\ Native
    /\ IsCall(1, "new") /\ IsCall(2, "is_visible") /\ hist[2].ret
    /\ args.bounds = [width |-> 0, height |-> 0]
    /\ args.url = "not a url"

\* C11: on the stand-in, new() always succeeds, is_visible always returns
\* false (also right after set_hidden(false)), set_hidden changes nothing,
\* and navigate(addr) stores addr, also when addr is already stored.
C11_StandinContract ==
    variant = "standin" =>
        /\ pc # "failed" /\ result # "Err"
        /\ pc # "init" => result = "Ok"
        /\ \A i \in Calls :
             /\ hist[i].op = "is_visible" => ~hist[i].ret
             /\ hist[i].op = "set_hidden" => hist[i].post = hist[i].pre
             /\ hist[i].op \in {"new", "navigate"}
                    => hist[i].post.url = hist[i].url
             /\ ~hist[i].post.vis

C11_Witness ==
    /\ variant = "standin"
    /\ \E i \in Calls, j \in Calls :
         /\ IsCall(i, "set_hidden") /\ ~hist[i].flag
         /\ IsCall(i + 1, "is_visible") /\ ~hist[i + 1].ret
         /\ IsCall(j, "navigate") /\ hist[j].url = hist[j].pre.url

\* C12: on the native variant, a second set_hidden(true) in a row leaves the
\* state the first one left, and set_hidden(false) on a shown window leaves
\* the state unchanged (visibility, stored address, native objects, loads).
C12_SetHiddenIdempotent ==
    \A i \in Calls :
        /\ (Native /\ IsCall(i, "set_hidden") /\ IsCall(i + 1, "set_hidden")
                   /\ hist[i].flag /\ hist[i + 1].flag)
               => /\ hist[i + 1].post = hist[i].post
                  /\ ~hist[i + 1].post.vis
        /\ (Native /\ IsCall(i, "set_hidden") /\ ~hist[i].flag
                   /\ hist[i].pre.vis)
               => hist[i].post = hist[i].pre

C12_Witness ==
    /\ Native
    /\ \E i \in Calls, j \in Calls :
         /\ IsCall(i, "set_hidden") /\ IsCall(i + 1, "set_hidden")
         /\ hist[i].flag /\ hist[i + 1].flag /\ hist[i].pre.vis
         /\ IsCall(j, "set_hidden") /\ ~hist[j].flag /\ hist[j].pre.vis

\* C13: a close by the user never releases the window: the window and its
\* content view stay allocated, a later set_hidden(false) presents the same
\* window again, and the window is released once, by drop alone, with
\* nothing sent to it afterwards.
C13_UserCloseNeverReleases ==
    Native =>
        /\ \A i \in Calls :
             /\ hist[i].op = "user_close"
                    => /\ hist[i].post.objs = hist[i].pre.objs
                       /\ hist[i].post.objs["window"].state = "live"
                       /\ ~hist[i].post.vis
             /\ (hist[i].op = "set_hidden" /\ ~hist[i].flag)
                    => /\ hist[i].post.vis
                       /\ hist[i].post.objs = hist[i].pre.objs
        /\ pc = "live"
               => /\ floating_window = "window" /\ ns_webview = "webview"
                  /\ objs["window"] = [state |-> "live", rc |-> 1]
                  /\ objs["webview"].state = "live"
                  /\ "webview" \in subviews
                  /\ winReleases = 0
        /\ pc = "dropped" => winReleases = 1
        /\ \A k \in 1..Len(WindowMsgs) :
             WindowMsgs[k][2] = "release"
                 => k = Len(WindowMsgs) /\ pc = "dropped"

C13_Witness ==
    /\ Native
    /\ pc = "dropped"
    /\ winReleases = 1
    /\ \E i \in Calls :
         /\ IsCall(i, "user_close")
         /\ IsCall(i + 1, "set_hidden") /\ ~hist[i + 1].flag
         /\ hist[i + 1].post.vis
         /\ IsCall(i + 2, "drop")

\* C14: on the native variant is_visible returns the window's own flag as it
\* is when called; right after a close by the user it returns false.
C14_IsVisibleReadsWindow ==
    Native =>
        \A i \in Calls :
            hist[i].op = "is_visible"
                => /\ hist[i].ret = hist[i].pre.vis
                   /\ IsCall(i - 1, "user_close") => ~hist[i].ret

C14_Witness ==
    /\ Native
    /\ \E i \in Calls : /\ IsCall(i, "set_hidden") /\ ~hist[i].flag
                        /\ IsCall(i + 1, "user_close")
                        /\ IsCall(i + 2, "is_visible") /\ ~hist[i + 2].ret

\* Positions in msgs of the messages `sel` sent to `target`.
Positions(target, sel) == { k \in 1..Len(msgs) : msgs[k] = <<target, sel>> }

\* C15: set_hidden and is_visible change neither the stored address, the
\* loads issued nor the native objects, and a live native manager holds the
\* one window and the one content view that new() created.
C15_PresentationOnly ==
    /\ \A i \in Calls :
         hist[i].op \in {"set_hidden", "is_visible"}
             => /\ hist[i].post.url = hist[i].pre.url
                /\ hist[i].post.nloads = hist[i].pre.nloads
                /\ hist[i].post.objs = hist[i].pre.objs
    /\ (Native /\ pc = "live")
           => /\ floating_window = "window" /\ ns_webview = "webview"
              /\ objs["window"].state = "live"
              /\ objs["webview"].state = "live"
              /\ Cardinality(Positions("window", "alloc")) = 1
              /\ Cardinality(Positions("webview", "alloc")) = 1
              /\ subviews = {"webview"}

C15_Witness ==
    /\ Native
    /\ pc = "live"
    /\ \E i \in Calls : /\ IsCall(i, "set_hidden") /\ hist[i].flag
                        /\ IsCall(i + 1, "set_hidden") /\ ~hist[i + 1].flag
                        /\ IsCall(i + 2, "is_visible")
                        /\ hist[i].pre.nloads = 2

\* C16: native new() issues one load request, for the initial address, after
\* the content view is attached and before the window is presented; the
\* window is never visible while no load has been issued.
C16_LoadBeforePresent ==
    Native =>
        /\ loads = << >> => ~winVisible
        /\ \A k \in Positions("webview", "loadRequest") :
             \E a \in Positions("contentView", "addSubview") : a < k
        /\ \A k \in Positions("window", "makeKeyAndOrderFront") :
             \E l \in Positions("webview", "loadRequest") : l < k
        /\ pc \in {"init", "new_window", "new_config", "new_webview",
                   "new_load", "failed"} => loads = << >>
        /\ pc = "new_present" => loads = << LoadRequest(args.url) >>
        /\ IsCall(1, "new")
               => /\ hist[1].post.nloads = 1
                  /\ loads[1] = LoadRequest(hist[1].url)
                  /\ hist[1].post.vis

C16_Witness ==
    /\ Native
    /\ pc = "live"
    /\ Len(hist) = 1
    /\ Len(loads) = 1 /\ loads[1].addr = args.url
    /\ winVisible
    /\ subviews = {"webview"}

\* navigate calls in h whose argument differed from the stored address.
Effective(h) ==
    { i \in 1..Len(h) : h[i].op = "navigate" /\ h[i].url # h[i].pre.url }

\* C17: on the native variant, once constructed, the load request issued
\* last was built from current_url, and the loads issued number one plus the
\* navigate calls whose argument differed from the stored address.
C17_LoadsMatchNavigations ==
    (Native /\ pc \in {"live", "dropped"})
        => /\ loads[Len(loads)] = LoadRequest(current_url)
           /\ Len(loads) = 1 + Cardinality(Effective(hist))

C17_Witness ==
    /\ Native
    /\ pc = "live"
    /\ Len(loads) = 3
    /\ \E i \in Calls : hist[i].op = "navigate" /\ hist[i].url = hist[i].pre.url

\* C18: navigate to an address whose load can only fail returns normally
\* and stores the address; a following navigate to the same address issues
\* no load, and no address is ever loaded twice in a row.
C18_FailedLoadNotRetried ==
    Native =>
        /\ \A i \in Calls :
             (hist[i].op = "navigate" /\ hist[i].url \in Malformed)
                 => /\ hist[i].post.url = hist[i].url
                    /\ hist[i].post.nloads - hist[i].pre.nloads =
                           (IF hist[i].url = hist[i].pre.url THEN 0 ELSE 1)
                    /\ IsCall(i + 1, "navigate")
                           /\ hist[i + 1].url = hist[i].url
                         => hist[i + 1].post.nloads = hist[i].post.nloads
        /\ \A k \in 1..Len(loads) - 1 : loads[k].addr # loads[k + 1].addr
        /\ (pc \in {"live", "dropped"} /\ current_url \in Malformed)
               => loadStatus \in {"inflight", "failed"} /\ result = "Ok"

C18_Witness ==
    /\ Native
    /\ pc = "live"
    /\ result = "Ok"
    /\ loadStatus = "failed"
    /\ current_url \in Malformed
    /\ \E i \in Calls :
         /\ IsCall(i, "navigate") /\ hist[i].url \in Malformed
         /\ hist[i].url # hist[i].pre.url
         /\ IsCall(i + 1, "navigate") /\ hist[i + 1].url = hist[i].url
         /\ i + 1 = Len(hist)

\* The stand-in's current_url after the calls of h (lines 163-171): new and
\* navigate store their argument, nothing else writes it.
RECURSIVE StandinReplay(_)
StandinReplay(h) ==
    IF h = << >> THEN Nil
    ELSE LET e == h[Len(h)] IN
         IF e.op = "new" THEN e.url
         ELSE IF e.op = "navigate" THEN e.url
         ELSE StandinReplay(SubSeq(h, 1, Len(h) - 1))

\* The calls made on the manager, without the user's own events.
CallsOnly(h) == SelectSeq(h, LAMBDA e : e.op # "user_close")

\* C19: the native manager's current_url equals the one the stand-in holds
\* after the same sequence of new, navigate, set_hidden and is_visible calls.
C19_SameUrlAsStandin ==
    pc = "live" => current_url = StandinReplay(CallsOnly(hist))

C19_Witness ==
    /\ Native
    /\ pc = "live"
    /\ \E i \in Calls :
         /\ IsCall(i, "navigate") /\ hist[i].url # hist[i].pre.url
         /\ IsCall(i + 1, "set_hidden")
         /\ IsCall(i + 2, "navigate") /\ hist[i + 2].url = hist[i + 2].pre.url

====
